---- MODULE Spec2Model ----
(***************************************************************************)
(* A model of 3-Day_Context_Engineering/Agent.py: the credential gate, the *)
(* four demos run by __main__, run_session (create-or-get, query loop,     *)
(* reply printing) and the two user-info tools.  The agent SDK and         *)
(* python-dotenv are the environment: their calls are modelled at the      *)
(* call sites, with every outcome the call can have.                       *)
(***************************************************************************)
EXTENDS Integers, Sequences, FiniteSets, TLC

\* ------------------------------------------------------------------ bounds
MaxEvents == 2      \* events one run_async stream yields, at most
MaxCalls == 2       \* run_session calls made by the call harness (SpecCalls)

\* ------------------------------------------------- Python values, encoded
\* Optional[T]: None is <<>>, a value v is <<v>>.
None == <<>>
Some(v) == <<v>>

\* `not v` for an Optional[str]
Falsy(o) == o = None \/ o = Some("")

\* user_queries: list[str] | str = None
PyNone == [t |-> "none", s |-> "", l |-> <<>>]
PyStr(s) == [t |-> "str", s |-> s, l |-> <<>>]
PyList(l) == [t |-> "list", s |-> "", l |-> l]

\* Python truthiness of a user_queries value
Truthy(q) ==
    CASE q.t = "none" -> FALSE
      [] q.t = "str" -> q.s # ""
      [] q.t = "list" -> q.l # <<>>

\* ------------------------------------------------------ module constants
APP_NAME == "default"
USER_ID == "default"
MODEL_NAME == "gemini-2.5-flash-lite"
DB_URL == "sqlite:///my_agent_data.db"
COMPACTING_APP == "research_app_compacting"

\* -------------------------------------------------------- session services
\* A service instance.  An InMemorySessionService keeps its sessions in the
\* instance; every DatabaseSessionService on one db_url shares that database.
InMemorySessionService(n) == [kind |-> "mem", inst |-> n, url |-> ""]
DatabaseSessionService(n, url) == [kind |-> "db", inst |-> n, url |-> url]
Store(svc) == IF svc.kind = "db" THEN [svc EXCEPT !.inst = 0] ELSE svc

SessionKey(svc, app, user, id) ==
    [store |-> Store(svc), app_name |-> app, user_id |-> user, id |-> id]

Runner(app, svc, tools) ==
    [app_name |-> app, session_service |-> svc, tools |-> tools]

UserMsg(text) == [author |-> "user", text |-> text]
AgentTurn == [author |-> "text_chat_bot", text |-> ""]
NewSession == [events |-> <<>>]

\* ------------------------------------------------------------- the script
Q_CAPITAL_US == "Hi, I am Sam! What is the capital of the United States?"
Q_MY_NAME == "Hello! What is my name?"

in_memory_session_demo ==
    [svc |-> "mem", app |-> APP_NAME, tools |-> FALSE,
     calls |-> << [q |-> PyList(<<Q_CAPITAL_US, Q_MY_NAME>>),
                   name |-> "stateful-agentic-session"] >>]

persistent_session_demo ==
    [svc |-> "db", app |-> APP_NAME, tools |-> FALSE,
     calls |-> << [q |-> PyList(<<Q_CAPITAL_US, Q_MY_NAME>>),
                   name |-> "test-db-session-01"],
                  [q |-> PyList(<<"What is the capital of India?", "What is my name?">>),
                   name |-> "test-db-session-01"] >>]

context_compaction_demo ==
    [svc |-> "db", app |-> COMPACTING_APP, tools |-> FALSE,
     calls |-> << [q |-> PyStr("What is the latest news about AI in healthcare?"),
                   name |-> "compaction_demo"],
                  [q |-> PyStr("Are there any new developments in drug discovery?"),
                   name |-> "compaction_demo"],
                  [q |-> PyStr("Tell me more about drug discovery."),
                   name |-> "compaction_demo"],
                  [q |-> PyStr("Who are the main companies in this field?"),
                   name |-> "compaction_demo"] >>]

\* the compaction demo written as a copy of the persistent one
context_compaction_demo_copied ==
    [context_compaction_demo EXCEPT
        !.app = APP_NAME,
        !.calls = [c \in 1..4 |-> [@[c] EXCEPT !.name = "test-db-session-01"]]]

session_state_demo ==
    [svc |-> "mem", app |-> APP_NAME, tools |-> TRUE,
     calls |-> << [q |-> PyList(<<"Hi there, what is my name?",
                                  "My name is Sam. I'm from Poland.",
                                  "What is my name? Which country am I from?">>),
                   name |-> "state-demo-session"] >>]

DemosCopied(name) ==
    CASE name = "in_memory_session_demo" -> in_memory_session_demo
      [] name = "persistent_session_demo" -> persistent_session_demo
      [] name = "context_compaction_demo" -> context_compaction_demo_copied
      [] name = "session_state_demo" -> session_state_demo

Demos(name) ==
    CASE name = "in_memory_session_demo" -> in_memory_session_demo
      [] name = "persistent_session_demo" -> persistent_session_demo
      [] name = "context_compaction_demo" -> context_compaction_demo
      [] name = "session_state_demo" -> session_state_demo

\* __main__ with two demos swapped
MainSwapped ==
    << "in_memory_session_demo", "context_compaction_demo",
       "persistent_session_demo", "session_state_demo" >>

\* __main__: the asyncio.run calls, in order
Main ==
    << "in_memory_session_demo", "persistent_session_demo",
       "context_compaction_demo", "session_state_demo" >>

\* ------------------------------------------------------------------ state
VARIABLES
    environ,          \* os.environ["GOOGLE_API_KEY"], Optional[str]
    dotenvFile,       \* GOOGLE_API_KEY in the .env file, Optional[str]
    startEnv,         \* history: environ when the script started
    GOOGLE_API_KEY,   \* the module global set on line 20
    pc,               \* where the script is
    demo,             \* index into Main of the running demo
    dpc,              \* "setup" or "calls" inside the running demo
    ci,               \* run_session calls begun (by the demo, or by the harness)
    demosRun,         \* history: the demos started, in order
    session_service,  \* the module global, Optional[service instance]
    runner,           \* the demo's local runner, Optional
    sessions,         \* every store's sessions: SessionKey -> session
    sessions0,        \* history: sessions when the current run_session began
    userState,        \* "user:"-scoped state: [store, app, user] -> dict
    touched,          \* history: [demo, key] for every session a demo used
    sent,             \* history: run_async calls issued since the script began
    sdkError,         \* history: create_session failed other than "exists"
    rs,               \* the run_session frame (arg: user_queries as passed)
    out,              \* lines printed since the current run_session began
    calls,            \* run_async calls of the current run_session
    lastEvent,        \* the event of the current stream handled last
    nev,              \* events the current stream has yielded
    toolRet,          \* what the last tool call returned, Optional
    lastSave          \* history: arguments of the last save_userinfo

vars == << environ, dotenvFile, startEnv, GOOGLE_API_KEY, pc, demo, dpc, ci,
           demosRun, session_service, runner, sessions, sessions0, userState,
           touched, sent, sdkError, rs, out, calls, lastEvent, nev, toolRet,
           lastSave >>

scriptVars == << environ, dotenvFile, startEnv, GOOGLE_API_KEY, pc, demo, dpc,
                 demosRun, session_service, runner >>

Line(k, text, q) == [k |-> k, text |-> text, q |-> q]

IdleFrame ==
    [pc |-> "idle", arg |-> PyNone, user_queries |-> PyNone, session_name |-> "",
     session |-> None, i |-> 0]

\* ----------------------------------------------------- the credential gate
KeyValues == {None, Some(""), Some("key-from-env")}
DotenvValues == {None, Some("key-from-dotenv")}

\* load_dotenv(): a variable the environment already holds is left alone
\* (override=False); otherwise the .env file's value, if any, is set.
LoadedEnv(env, file) == IF env = None THEN file ELSE env

LoadDotenv ==
    /\ pc = "load_dotenv"
    /\ environ' = LoadedEnv(environ, dotenvFile)
    /\ pc' = "credentials"
    /\ UNCHANGED << dotenvFile, startEnv, GOOGLE_API_KEY, demo, dpc, ci, demosRun,
                    session_service, runner, sessions, sessions0, userState,
                    touched, sent, sdkError, rs, out, calls, lastEvent, nev,
                    toolRet, lastSave >>

\* `if GOOGLE_API_KEY is None` in place of `if not GOOGLE_API_KEY`
KeyMissingNoneOnly(k) == k = None

\* line 21
KeyMissing(k) == Falsy(k)

\* lines 19-27
Credentials ==
    /\ pc = "credentials"
    /\ GOOGLE_API_KEY' = environ
    /\ IF KeyMissing(environ)
         THEN /\ out' = Append(out, Line("auth_error", "Gemini API Key not found in .env file.", 0))
              /\ pc' = "exited"
              /\ UNCHANGED environ
         ELSE /\ environ' = environ
              /\ out' = Append(out, Line("setup_complete", "", 0))
              /\ pc' = "main"
    /\ UNCHANGED << dotenvFile, startEnv, demo, dpc, ci, demosRun,
                    session_service, runner, sessions, sessions0, userState,
                    touched, sent, sdkError, rs, calls, lastEvent, nev,
                    toolRet, lastSave >>

\* ------------------------------------------------------------- run_session
\* line 48, and the call of create_session
BeginRunSession(q, name) ==
    /\ rs' = [pc |-> "create", arg |-> q, user_queries |-> q, session_name |-> name,
              session |-> None, i |-> 0]
    /\ out' = << Line("session", name, 0) >>
    /\ calls' = <<>>
    /\ sessions0' = sessions
    /\ lastEvent' = None
    /\ nev' = 0
    /\ toolRet' = None
    /\ ci' = ci + 1

\* the session run_session's create/get calls address (lines 53 and 57)
CallKey ==
    SessionKey(session_service[1], runner[1].app_name, USER_ID, rs.session_name)

SessionObject(key) == [id |-> key.id, app_name |-> key.app_name, user_id |-> key.user_id]

\* get_session called with the default session name instead of session_name
FallbackKeyDefault(key) == [key EXCEPT !.id = "default"]

\* get_session is called with create_session's arguments (lines 56-58)
FallbackKey(key) == key

\* lines 51-55: create_session returns a new session, raises because the
\* session exists, or raises for another reason; `except Exception` catches
\* both (and the NameError of an unset global).
RS_Create ==
    /\ rs.pc = "create"
    /\ \/ /\ session_service = None
          /\ rs' = [rs EXCEPT !.pc = "get"]
          /\ UNCHANGED << sessions, userState, touched, sdkError >>
       \/ /\ session_service # None
          /\ CallKey \notin DOMAIN sessions
          /\ sessions' = (CallKey :> NewSession) @@ sessions
          /\ UNCHANGED userState
          /\ touched' = touched \cup {[demo |-> demo, key |-> CallKey]}
          /\ rs' = [rs EXCEPT !.session = Some(SessionObject(CallKey)), !.pc = "convert"]
          /\ UNCHANGED sdkError
       \/ /\ session_service # None
          /\ CallKey \in DOMAIN sessions
          /\ rs' = [rs EXCEPT !.pc = "get"]
          /\ UNCHANGED << sessions, userState, touched, sdkError >>
       \/ /\ session_service # None
          /\ sdkError' = TRUE
          /\ rs' = [rs EXCEPT !.pc = "get"]
          /\ UNCHANGED << sessions, userState, touched >>
    /\ UNCHANGED << scriptVars, ci, sessions0, sent, out, calls, lastEvent, nev,
                    toolRet, lastSave >>

\* lines 56-58: get_session returns the session, or None when there is none;
\* an exception here leaves run_session.
RS_Get ==
    /\ rs.pc = "get"
    /\ \/ /\ session_service = None
          /\ rs' = [rs EXCEPT !.pc = "raised"]
          /\ UNCHANGED touched
       \/ /\ session_service # None
          /\ FallbackKey(CallKey) \in DOMAIN sessions
          /\ rs' = [rs EXCEPT !.session = Some(SessionObject(FallbackKey(CallKey))),
                              !.pc = "convert"]
          /\ touched' = touched \cup {[demo |-> demo, key |-> FallbackKey(CallKey)]}
       \/ /\ session_service # None
          /\ FallbackKey(CallKey) \notin DOMAIN sessions
          /\ rs' = [rs EXCEPT !.session = None, !.pc = "convert"]
          /\ UNCHANGED touched
       \/ /\ session_service # None
          /\ sdkError
          /\ rs' = [rs EXCEPT !.pc = "raised"]
          /\ UNCHANGED touched
    /\ UNCHANGED << scriptVars, ci, sessions, sessions0, userState, sent, sdkError,
                    out, calls, lastEvent, nev, toolRet, lastSave >>

\* lines 61-62
ConvertQueries(q) == IF Truthy(q) /\ q.t = "str" THEN PyList(<< q.s >>) ELSE q

\* `if user_queries is None` in place of `if not user_queries`
NoQueriesIsNone(q) == q.t = "none"

\* line 64
NoQueries(q) == ~Truthy(q)

\* what `for query in user_queries` iterates over
Items(q) == IF q.t = "list" THEN q.l ELSE <<>>

\* lines 60-66
RS_Convert ==
    /\ rs.pc = "convert"
    /\ LET uq == ConvertQueries(rs.user_queries) IN
         IF NoQueries(uq)
           THEN /\ out' = Append(out, Line("no_queries", "No queries provided.", 0))
                /\ rs' = [rs EXCEPT !.user_queries = uq, !.pc = "returned"]
           ELSE /\ out' = out
                /\ rs' = [rs EXCEPT !.user_queries = uq,
                                    !.pc = IF Items(uq) = <<>> THEN "returned" ELSE "loop"]
    /\ UNCHANGED << scriptVars, ci, sessions, sessions0, userState, touched, sent,
                    sdkError, calls, lastEvent, nev, toolRet, lastSave >>

\* the loop taking the queries last to first
QueryAtReversed(l, i) == l[Len(l) + 1 - i]

\* the i-th query of the loop
QueryAt(l, i) == l[i]

\* lines 69-76: the next iteration prints the query, builds the message and
\* calls run_async, which raises when the runner's service has no such session.
RS_Send ==
    /\ rs.pc = "loop"
    /\ rs.i < Len(Items(rs.user_queries))
    /\ LET query == QueryAt(Items(rs.user_queries), rs.i + 1) IN
       /\ out' = Append(out, Line("user", query, rs.i + 1))
       /\ IF rs.session = None
            THEN /\ rs' = [rs EXCEPT !.i = rs.i + 1, !.pc = "raised"]
                 /\ UNCHANGED << sessions, touched, sent, calls >>
            ELSE LET r == runner[1]
                     key == SessionKey(r.session_service, r.app_name, USER_ID, rs.session[1].id)
                 IN /\ calls' = Append(calls,
                                  [key |-> key, user_id |-> USER_ID,
                                   session_id |-> rs.session[1].id, text |-> query,
                                   found |-> key \in DOMAIN sessions])
                    /\ sent' = sent + 1
                    /\ IF key \in DOMAIN sessions
                         THEN /\ sessions' = [sessions EXCEPT ![key].events = Append(@, UserMsg(query))]
                              /\ touched' = touched \cup {[demo |-> demo, key |-> key]}
                              /\ rs' = [rs EXCEPT !.i = rs.i + 1, !.pc = "stream"]
                         ELSE /\ rs' = [rs EXCEPT !.i = rs.i + 1, !.pc = "raised"]
                              /\ UNCHANGED << sessions, touched >>
    /\ lastEvent' = None
    /\ nev' = 0
    /\ toolRet' = None
    /\ UNCHANGED << scriptVars, ci, sessions0, userState, sdkError, lastSave >>

\* -------------------------------------------------------------- the events
Ev(parts) == [content |-> Some([parts |-> parts])]

Events ==
    { [content |-> None],                          \* no content
      Ev(None),                                    \* parts is None
      Ev(Some(<<>>)),                              \* parts is []
      Ev(Some(<< None >>)),                        \* first part has no text
      Ev(Some(<< Some("") >>)),
      Ev(Some(<< Some("None") >>)),
      Ev(Some(<< Some("hi") >>)),
      Ev(Some(<< None, Some("late") >>)),
      Ev(Some(<< Some("hi"), Some("second") >>)) }

\* the filter without the test against "None"
ReplyLinesNoneNotTested(e, q) ==
    IF e.content # None /\ e.content[1].parts # None /\ e.content[1].parts[1] # <<>>
      THEN LET response == e.content[1].parts[1][1] IN
             IF ~Falsy(response)
               THEN << Line("reply", response[1], q) >>
               ELSE <<>>
      ELSE <<>>

\* lines 77-80
ReplyLines(e, q) ==
    IF e.content # None /\ e.content[1].parts # None /\ e.content[1].parts[1] # <<>>
      THEN LET response == e.content[1].parts[1][1] IN
             IF ~Falsy(response) /\ response # Some("None")
               THEN << Line("reply", response[1], q) >>
               ELSE <<>>
      ELSE <<>>

\* one iteration of `async for event in run_async(...)`
RS_Event ==
    /\ rs.pc = "stream"
    /\ nev < MaxEvents
    /\ \E e \in Events :
         /\ lastEvent' = Some(e)
         /\ out' = out \o ReplyLines(e, rs.i)
    /\ nev' = nev + 1
    /\ toolRet' = None
    /\ UNCHANGED << scriptVars, ci, sessions, sessions0, userState, touched, sent,
                    sdkError, rs, calls, lastSave >>

\* the stream is exhausted: the runner has stored the agent's turn
RS_StreamEnd ==
    /\ rs.pc = "stream"
    /\ sessions' = [sessions EXCEPT ![calls[Len(calls)].key].events = Append(@, AgentTurn)]
    /\ rs' = [rs EXCEPT !.pc = IF rs.i < Len(Items(rs.user_queries)) THEN "loop" ELSE "returned"]
    /\ lastEvent' = None
    /\ nev' = 0
    /\ toolRet' = None
    /\ UNCHANGED << scriptVars, ci, sessions0, userState, touched, sent, sdkError,
                    out, calls, lastSave >>

\* ---------------------------------------------------------------- the tools
\* tool_context.state, a dict: a function from the keys it holds
DictGet(d, k, default) == IF k \in DOMAIN d THEN d[k] ELSE default
DictSet(d, k, v) == [x \in DOMAIN d \cup {k} |-> IF x = k THEN v ELSE d[x]]

\* save_userinfo storing the country under the name's key
save_userinfo_one_key(state, user_name, country) ==
    [state |-> DictSet(DictSet(state, "user:name", user_name), "user:name", country),
     ret |-> [fn |-> "save_userinfo", val |-> ("status" :> "success")]]

\* lines 170-173
save_userinfo(state, user_name, country) ==
    [state |-> DictSet(DictSet(state, "user:name", user_name), "user:country", country),
     ret |-> [fn |-> "save_userinfo", val |-> ("status" :> "success")]]

\* lines 176-179
retrieve_userinfo(state) ==
    [state |-> state,
     ret |-> [fn |-> "retrieve_userinfo",
              val |-> ("user_name" :> DictGet(state, "user:name", "Unknown")
                       @@ "country" :> DictGet(state, "user:country", "Unknown"))]]

UserNames == {"Sam", "Ann"}
Countries == {"Poland"}

Scope(key) == [store |-> key.store, app_name |-> key.app_name, user_id |-> key.user_id]

\* the state the running turn's tool_context gives the tools
ToolState ==
    LET sc == Scope(calls[Len(calls)].key) IN
      IF sc \in DOMAIN userState THEN userState[sc] ELSE <<>>

\* the agent calls a tool while its turn is streamed
ToolSave ==
    /\ rs.pc = "stream"
    /\ runner[1].tools
    /\ \E n \in UserNames, c \in Countries :
         LET r == save_userinfo(ToolState, n, c) IN
           /\ userState' = (Scope(calls[Len(calls)].key) :> r.state) @@ userState
           /\ toolRet' = Some(r.ret)
           /\ lastSave' = Some(<< n, c >>)
    /\ UNCHANGED << scriptVars, ci, sessions, sessions0, touched, sent, sdkError,
                    rs, out, calls, lastEvent, nev >>

ToolRetrieve ==
    /\ rs.pc = "stream"
    /\ runner[1].tools
    /\ LET r == retrieve_userinfo(ToolState) IN
         /\ userState' = (Scope(calls[Len(calls)].key) :> r.state) @@ userState
         /\ toolRet' = Some(r.ret)
    /\ UNCHANGED << scriptVars, ci, sessions, sessions0, touched, sent, sdkError,
                    rs, out, calls, lastEvent, nev, lastSave >>

\* --------------------------------------------------------------- the demos
\* a demo that leaves `global session_service` out binds a local instead
AssignGlobalAsLocal(old, new) == old

\* `global session_service` followed by the assignment
AssignGlobal(old, new) == new

NewService(d) ==
    IF Demos(Main[d]).svc = "db"
      THEN DatabaseSessionService(d, DB_URL)
      ELSE InMemorySessionService(d)

\* the demo's lines up to its first run_session: the service, the global, the runner
DemoStart ==
    /\ pc = "main"
    /\ dpc = "setup"
    /\ session_service' = AssignGlobal(session_service, Some(NewService(demo)))
    /\ runner' = Some(Runner(Demos(Main[demo]).app, NewService(demo), Demos(Main[demo]).tools))
    /\ demosRun' = Append(demosRun, Main[demo])
    /\ dpc' = "calls"
    /\ ci' = 0
    /\ rs' = IdleFrame
    /\ UNCHANGED << environ, dotenvFile, startEnv, GOOGLE_API_KEY, pc, demo,
                    sessions, sessions0, userState, touched, sent, sdkError, out,
                    calls, lastEvent, nev, toolRet, lastSave >>

\* the demo's next `await run_session(...)`
DemoCall ==
    /\ pc = "main"
    /\ dpc = "calls"
    /\ rs.pc \in {"idle", "returned"}
    /\ ci < Len(Demos(Main[demo]).calls)
    /\ BeginRunSession(Demos(Main[demo]).calls[ci + 1].q, Demos(Main[demo]).calls[ci + 1].name)
    /\ UNCHANGED << scriptVars, sessions, userState, touched, sent, sdkError, lastSave >>

\* the demo returns, its runner and frames with it; __main__ runs the next
\* one, or the script ends
DemoEnd ==
    /\ pc = "main"
    /\ dpc = "calls"
    /\ rs.pc \in {"idle", "returned"}
    /\ ci = Len(Demos(Main[demo]).calls)
    /\ IF demo < Len(Main)
         THEN /\ demo' = demo + 1
              /\ dpc' = "setup"
              /\ pc' = pc
         ELSE /\ pc' = "done"
              /\ UNCHANGED << demo, dpc >>
    /\ rs' = IdleFrame
    /\ runner' = None
    /\ calls' = <<>>
    /\ UNCHANGED << environ, dotenvFile, startEnv, GOOGLE_API_KEY, ci, demosRun,
                    session_service, sessions, sessions0, userState,
                    touched, sent, sdkError, out, lastEvent, nev,
                    toolRet, lastSave >>

\* an exception leaves run_session, the demo and asyncio.run: the script dies
Crash ==
    /\ pc = "main"
    /\ rs.pc = "raised"
    /\ pc' = "crashed"
    /\ UNCHANGED << environ, dotenvFile, startEnv, GOOGLE_API_KEY, demo, dpc, ci,
                    demosRun, session_service, runner, sessions, sessions0,
                    userState, touched, sent, sdkError, rs, out, calls, lastEvent,
                    nev, toolRet, lastSave >>

\* ------------------------------------------------------------ the database
Turns(l) == [i \in 1..(2 * Len(l)) |-> IF i % 2 = 1 THEN UserMsg(l[(i + 1) \div 2]) ELSE AgentTurn]

Texts(callList) ==
    LET RECURSIVE cat(_)
        cat(n) == IF n = 0 THEN <<>> ELSE cat(n - 1) \o Items(ConvertQueries(callList[n].q))
    IN cat(Len(callList))

\* my_agent_data.db as an earlier, complete run of the script left it
PreviousRunDb ==
    LET db == DatabaseSessionService(0, DB_URL)
        p == persistent_session_demo
        c == context_compaction_demo
    IN (SessionKey(db, p.app, USER_ID, p.calls[1].name) :> [events |-> Turns(Texts(p.calls))])
       @@ (SessionKey(db, c.app, USER_ID, c.calls[1].name) :> [events |-> Turns(Texts(c.calls))])

Init ==
    /\ environ \in KeyValues
    /\ dotenvFile \in DotenvValues
    /\ startEnv = environ
    /\ GOOGLE_API_KEY = None
    /\ pc = "load_dotenv"
    /\ demo = 1
    /\ dpc = "setup"
    /\ ci = 0
    /\ demosRun = <<>>
    /\ session_service = None
    /\ runner = None
    /\ sessions \in {<<>>, PreviousRunDb}
    /\ sessions0 = sessions
    /\ userState = <<>>
    /\ touched = {}
    /\ sent = 0
    /\ sdkError = FALSE
    /\ rs = IdleFrame
    /\ out = <<>>
    /\ calls = <<>>
    /\ lastEvent = None
    /\ nev = 0
    /\ toolRet = None
    /\ lastSave = None

RunSessionNext ==
    \/ RS_Create
    \/ RS_Get
    \/ RS_Convert
    \/ RS_Send
    \/ RS_Event
    \/ RS_StreamEnd

Next ==
    \/ LoadDotenv
    \/ Credentials
    \/ DemoStart
    \/ DemoCall
    \/ DemoEnd
    \/ Crash
    \/ RunSessionNext
    \/ ToolSave
    \/ ToolRetrieve

Spec == Init /\ [][Next]_vars

\* the script runs on; a stream the SDK has opened ends
FairSpec == Spec /\ WF_vars(Next) /\ WF_vars(RS_StreamEnd)

\* ------------------------------------------- run_session called on any input
QueryInputs ==
    { PyNone, PyList(<<>>), PyStr(""), PyStr("q1"), PyList(<< "q1", "q2" >>) }

SessionNames == {"s1", "s2"}

HarnessServices == { InMemorySessionService(1), DatabaseSessionService(1, DB_URL) }

InitCalls ==
    /\ environ = Some("key-from-env")
    /\ dotenvFile = None
    /\ startEnv = environ
    /\ GOOGLE_API_KEY = environ
    /\ pc = "harness"
    /\ demo = 0
    /\ dpc = "calls"
    /\ ci = 0
    /\ demosRun = <<>>
    /\ \E svc \in HarnessServices :
         /\ session_service = Some(svc)
         /\ runner = Some(Runner(APP_NAME, svc, FALSE))
         /\ sessions \in { <<>>,
                           SessionKey(svc, APP_NAME, USER_ID, "s1") :> [events |-> Turns(<< "q0" >>)] }
    /\ sessions0 = sessions
    /\ userState = <<>>
    /\ touched = {}
    /\ sent = 0
    /\ sdkError = FALSE
    /\ rs = IdleFrame
    /\ out = <<>>
    /\ calls = <<>>
    /\ lastEvent = None
    /\ nev = 0
    /\ toolRet = None
    /\ lastSave = None

HarnessCall ==
    /\ pc = "harness"
    /\ rs.pc \in {"idle", "returned"}
    /\ ci < MaxCalls
    /\ \E q \in QueryInputs, name \in SessionNames : BeginRunSession(q, name)
    /\ UNCHANGED << scriptVars, sessions, userState, touched, sent, sdkError, lastSave >>

NextCalls ==
    \/ HarnessCall
    \/ RunSessionNext

SpecCalls == InitCalls /\ [][NextCalls]_vars

\* ======================================================== the properties
AuthErrorPrinted == \E p \in 1..Len(out) : out[p].k = "auth_error"

\* C1 as stated: GOOGLE_API_KEY unset or empty when the script starts makes
\* the script print the authentication error and exit, with nothing
\* constructed, created or sent; a non-empty key makes it go on with the
\* variable unchanged.
C1_AsStated ==
    pc \notin {"load_dotenv", "credentials"} =>
      /\ startEnv \in {None, Some("")} =>
           /\ pc = "exited"
           /\ AuthErrorPrinted
           /\ session_service = None /\ runner = None
           /\ touched = {} /\ sent = 0 /\ sessions = sessions0
      /\ startEnv \notin {None, Some("")} => (pc # "exited" /\ environ = startEnv)

\* C1, amended: the gate closes when GOOGLE_API_KEY is unset or empty once
\* load_dotenv() has run, that is when the environment holds it empty, or
\* does not hold it and the .env file gives no non-empty value; then the
\* script prints the authentication error and exits with no service, runner,
\* session or message.  Otherwise it goes on, and the variable keeps the
\* value it had after load_dotenv().
C1_CredentialGate ==
    pc \notin {"load_dotenv", "credentials"} =>
      LET closed == \/ startEnv = Some("")
                    \/ (startEnv = None /\ dotenvFile \in {None, Some("")})
      IN /\ closed =>
              /\ pc = "exited"
              /\ AuthErrorPrinted
              /\ session_service = None /\ runner = None /\ demosRun = <<>>
              /\ touched = {} /\ sent = 0 /\ sessions = sessions0
         /\ ~closed =>
              /\ pc # "exited"
              /\ environ = (IF startEnv = None THEN dotenvFile ELSE startEnv)

\* the environment holds an empty key, the .env file a real one: the script exits
C1_Witness ==
    /\ pc = "exited"
    /\ startEnv = Some("")
    /\ dotenvFile = Some("key-from-dotenv")
    /\ AuthErrorPrinted

\* ------------------------------------------------------------ helpers
\* the queries a call is to send, read off the argument as passed
Expected(arg) == IF arg.t = "str" THEN << arg.s >> ELSE arg.l
NonEmptyInput(arg) == (arg.t = "str" /\ arg.s # "") \/ (arg.t = "list" /\ arg.l # <<>>)
UserLinesUpTo(p) == Cardinality({j \in 1..p : out[j].k = "user"})
\* what the session addressed by this call has stored since the call began
StoredSince(key) ==
    LET now == sessions[key].events
        before == IF key \in DOMAIN sessions0 THEN Len(sessions0[key].events) ELSE 0
    IN SubSeq(now, before + 1, Len(now))

\* C2: a call with a non-empty list, or a non-empty string taken as a
\* one-element list, issues one run_async per query, in list order, each with
\* that query's text and the one session id (all of them once the call has
\* returned); a query is not sent before the preceding turn is stored; each
\* reply line lies between its query's 'User > ' line and the next one.
C2_QueryLoopOrdering ==
    (rs.pc # "idle" /\ NonEmptyInput(rs.arg)) =>
      LET want == Expected(rs.arg) IN
      /\ Len(calls) <= Len(want)
      /\ \A n \in 1..Len(calls) :
           /\ calls[n].text = want[n]
           /\ calls[n].session_id = rs.session_name
           /\ calls[n].key = calls[1].key
      /\ rs.pc = "returned" => Len(calls) = Len(want)
      /\ \A p \in 1..Len(out) :
           /\ out[p].k = "user" =>
                /\ out[p].text = want[UserLinesUpTo(p)]
                /\ UserLinesUpTo(p) <= Len(calls) + (IF rs.pc = "raised" THEN 1 ELSE 0)
           /\ out[p].k = "reply" => (out[p].q >= 1 /\ UserLinesUpTo(p) = out[p].q)
      /\ calls # <<>> /\ calls[1].found =>
           LET new == StoredSince(calls[1].key) IN
             \A j \in 1..Len(new) :
               IF j % 2 = 1
                 THEN new[j] = UserMsg(want[(j + 1) \div 2])
                 ELSE new[j] = AgentTurn

\* a two-query call has returned with a reply line printed for each query
C2_Witness ==
    /\ rs.pc = "returned"
    /\ rs.arg = PyList(<< "q1", "q2" >>)
    /\ Len(calls) = 2
    /\ \E p, r \in 1..Len(out) : out[p].k = "reply" /\ out[p].q = 1
                                 /\ out[r].k = "reply" /\ out[r].q = 2

\* C5 as stated: after the create-or-get step, session is an existing
\* session of the session service whose id is session_name, whatever
\* create_session did.
C5_AsStated ==
    rs.pc \in {"convert", "loop", "stream", "returned"} =>
      /\ rs.session # None
      /\ rs.session[1].id = rs.session_name
      /\ CallKey \in DOMAIN sessions

\* C6: a call with user_queries None, [] or "" prints 'No queries provided.'
\* and returns with no run_async call; no session's history changes, and
\* the store gains at most the empty session named session_name.
C6_NoQueryCall ==
    (rs.pc # "idle" /\ rs.arg \in {PyNone, PyList(<<>>), PyStr("")}) =>
      /\ calls = <<>>
      /\ rs.pc \in {"create", "get", "convert", "returned", "raised"}
      /\ \A k \in DOMAIN sessions0 : k \in DOMAIN sessions /\ sessions[k] = sessions0[k]
      /\ \A k \in DOMAIN sessions \ DOMAIN sessions0 :
           /\ k = CallKey
           /\ sessions[k] = NewSession
      /\ rs.pc = "returned" =>
           out = << Line("session", rs.session_name, 0),
                    Line("no_queries", "No queries provided.", 0) >>

\* an empty-string call has returned, having created its empty session
C6_Witness ==
    /\ rs.pc = "returned"
    /\ rs.arg = PyStr("")
    /\ CallKey \in DOMAIN sessions
    /\ CallKey \notin DOMAIN sessions0
    /\ Len(out) = 2

\* the event has content, a non-empty parts list and a first part whose text
\* is a non-empty string other than 'None'
Printable(e) ==
    /\ e.content # None
    /\ e.content[1].parts # None
    /\ Len(e.content[1].parts[1]) >= 1
    /\ e.content[1].parts[1][1] \notin {None, Some(""), Some("None")}
RepliesOf(q) == Cardinality({p \in 1..Len(out) : out[p].k = "reply" /\ out[p].q = q})

\* C7: each event of a stream adds exactly one reply line, the text of its
\* first part, at the end of the output if it is printable, and nothing
\* otherwise; a query never has more reply lines than events.
C7_ReplyFilter ==
    /\ [](rs.pc = "stream" => RepliesOf(rs.i) <= nev)
    /\ [][nev' = nev + 1 =>
            LET e == lastEvent'[1] IN
              out' = IF Printable(e)
                       THEN Append(out, Line("reply", e.content[1].parts[1][1][1], rs.i))
                       ELSE out]_vars

\* a stream whose first event was printed and whose second, 'None', was not
C7_Witness ==
    /\ rs.pc = "stream"
    /\ nev = 2
    /\ lastEvent = Some(Ev(Some(<< Some("None") >>)))
    /\ RepliesOf(rs.i) = 1
    /\ out[Len(out)] = Line("reply", "hi", rs.i)

\* the texts of the run_async calls of the current run_session
CallTexts == [n \in 1..Len(calls) |-> calls[n].text]
\* the turns the current call has stored: the last one is open while it streams
CurrentTurns ==
    LET t == Turns(CallTexts) IN
      IF rs.pc = "stream" THEN SubSeq(t, 1, Len(t) - 1) ELSE t
IsSuffix(x, y) == Len(x) <= Len(y) /\ SubSeq(y, Len(y) - Len(x) + 1, Len(y)) = x
\* the demo's run_session calls that returned before the current one
EarlierCalls == SubSeq(Demos(Main[demo]).calls, 1, ci - 1)

\* C3: a later run_session call of a demo on the session name of an earlier
\* one gets that same session, not a new or emptied one: once its
\* create-or-get step is done, session is the record named session_name, and
\* the record's history ends with the earlier calls' user messages, each
\* followed by its stored turn, in the order sent, and then what this call
\* has sent.  So the history holds both messages of the first
\* 'test-db-session-01' call when the second call sends its first query.
C3_SameSessionOnRerun ==
    (pc = "main" /\ dpc = "calls" /\ ci >= 2
     /\ rs.pc \in {"convert", "loop", "stream", "returned"}) =>
      /\ rs.session = Some([id |-> rs.session_name, app_name |-> runner[1].app_name,
                            user_id |-> USER_ID])
      /\ CallKey \in DOMAIN sessions
      /\ IsSuffix(Turns(Texts(EarlierCalls)) \o CurrentTurns, sessions[CallKey].events)
      /\ Cardinality({k \in DOMAIN sessions :
                        k.store = CallKey.store /\ k.id = rs.session_name}) = 1

\* the second 'test-db-session-01' call has just sent its first query
C3_Witness ==
    /\ pc = "main"
    /\ Main[demo] = "persistent_session_demo"
    /\ ci = 2
    /\ rs.pc = "stream"
    /\ Len(calls) = 1
    /\ IsSuffix(<< UserMsg(Q_CAPITAL_US), AgentTurn, UserMsg(Q_MY_NAME), AgentTurn,
                   UserMsg("What is the capital of India?") >>,
                sessions[CallKey].events)

\* C4: no session record that one demo created, fetched or wrote is created,
\* fetched or written by another demo.
C4_DemosIndependent ==
    \A a, b \in touched : a.key = b.key => a.demo = b.demo

\* the script is done: all four demos used a session, two of them in the database
C4_Witness ==
    /\ pc = "done"
    /\ {t.demo : t \in touched} = 1..4
    /\ Cardinality({t.demo : t \in {u \in touched : u.key.store.kind = "db"}}) = 2

\* C8: while run_session creates or gets the session, the global
\* session_service is the runner's service; every run_async call addresses,
\* by the runner's app name, user 'default' and session.id, a session that
\* exists in the runner's service and is the one create/get addressed; the
\* compaction demo's runner has the App's name.
C8_RunnerAndStoreAgree ==
    (pc = "main" /\ rs.pc # "idle") =>
      /\ session_service = Some(runner[1].session_service)
      /\ Main[demo] = "context_compaction_demo" => runner[1].app_name = "research_app_compacting"
      /\ Main[demo] # "context_compaction_demo" => runner[1].app_name = "default"
      /\ \A n \in 1..Len(calls) :
           /\ calls[n].found
           /\ calls[n].user_id = "default"
           /\ calls[n].key = [store |-> Store(session_service[1]),
                              app_name |-> runner[1].app_name,
                              user_id |-> "default", id |-> rs.session_name]
           /\ calls[n].key \in DOMAIN sessions

\* the compaction demo streams a turn of a session stored under the App's name
C8_Witness ==
    /\ pc = "main"
    /\ Main[demo] = "context_compaction_demo"
    /\ rs.pc = "stream"
    /\ calls[1].found
    /\ calls[1].key.app_name = "research_app_compacting"
    /\ calls[1].key.store.kind = "db"

\* the dict the tools' state holds after the saves so far
SavedDict ==
    IF lastSave = None THEN <<>>
    ELSE ("user:name" :> lastSave[1][1] @@ "user:country" :> lastSave[1][2])

\* C9: retrieve_userinfo returns the arguments of the latest save_userinfo,
\* or 'Unknown' twice when there has been none; save_userinfo returns
\* {'status': 'success'}; the state holds the two keys of the latest save and
\* nothing else, so retrieve_userinfo changes nothing.
C9_UserInfoRoundTrip ==
    /\ \A sc \in DOMAIN userState : userState[sc] = SavedDict
    /\ toolRet # None =>
         /\ toolRet[1].fn = "save_userinfo" => toolRet[1].val = ("status" :> "success")
         /\ toolRet[1].fn = "retrieve_userinfo" =>
              toolRet[1].val =
                IF lastSave = None
                  THEN ("user_name" :> "Unknown" @@ "country" :> "Unknown")
                  ELSE ("user_name" :> lastSave[1][1] @@ "country" :> lastSave[1][2])

\* retrieve_userinfo has returned what the latest save stored
C9_Witness ==
    /\ toolRet # None
    /\ toolRet[1].fn = "retrieve_userinfo"
    /\ lastSave = Some(<< "Ann", "Poland" >>)
    /\ toolRet[1].val = ("user_name" :> "Ann" @@ "country" :> "Poland")

DemoOrder ==
    << "in_memory_session_demo", "persistent_session_demo",
       "context_compaction_demo", "session_state_demo" >>

\* C10: with a key, and unless create_session fails for a reason other than
\* the session existing, the script ends having run the four demos; the demos
\* start in the order of DemoOrder, each when the one before and all its
\* run_session calls have returned; the finished script has sent 13 messages.
C10_SequentialCompletion ==
    /\ [](demosRun = SubSeq(DemoOrder, 1, Len(demosRun)))
    /\ [](pc = "done" => (demosRun = DemoOrder /\ sent = 13))
    /\ [][demosRun' # demosRun =>
            /\ rs.pc \in {"idle", "returned"}
            /\ demosRun # <<>> =>
                 LET d == demosRun[Len(demosRun)] IN
                   ci = (CASE d = "in_memory_session_demo" -> 1
                           [] d = "persistent_session_demo" -> 2
                           [] d = "context_compaction_demo" -> 4
                           [] d = "session_state_demo" -> 1)]_vars
    /\ <>(pc \in {"done", "exited"} \/ sdkError)

\* the script has ended after four demos and no SDK failure
C10_Witness ==
    /\ pc = "done"
    /\ ~sdkError
    /\ sent = 13
    /\ demosRun = DemoOrder

====
